---------------------------- MODULE Spec2Model ----------------------------
(***************************************************************************)
(* Model of the cricket record service in src/app.py: a Flask application  *)
(* whose eight route handlers each translate one HTTP request into SQL     *)
(* statements against an SQLite file holding the tables players and        *)
(* matches.                                                                *)
(*                                                                         *)
(* Spec     : requests are served one at a time (each handler is atomic).  *)
(* SpecConc : two request threads interleave at statement boundaries, as   *)
(*            under the threaded development server started by app.run.    *)
(***************************************************************************)
EXTENDS Integers, FiniteSets, TLC

(* ------------------------------ bounds -------------------------------- *)

\* Largest player id / match id the model lets the store assign.
MaxPlayers == 1
MaxMatches == 2

(* ------------------------- JSON / SQL values -------------------------- *)

\* A value is a tagged record.  k is the type tag; n the numeric payload (an
\* integer, a boolean as 0/1, a real in tenths); s the text payload.
Value(k, n, s) == [k |-> k, n |-> n, s |-> s]
\* The key is missing from the request body.
Absent == Value("absent", 0, "")
\* JSON null / Python None / SQL NULL.
None == Value("null", 0, "")
Str(s) == Value("text", 0, s)
Integer(n) == Value("int", n, "")
Boolean(b) == Value("bool", IF b THEN 1 ELSE 0, "")
\* A real number given in tenths: Float(35) is 3.5.
Float(tenths) == Value("real", tenths, "")

\* dict.get(key, default) on the request body.
Get(data, key, default) == IF data[key] = Absent THEN default ELSE data[key]

\* "if name is None" in place of "if not name": an empty string passes.
IsNotNone(v) == v.k # "null"

\* Python truthiness of a bound value, as used by "if not name".
Truthy(v) ==
    CASE v.k = "null" -> FALSE
      [] v.k = "text" -> v.s # ""
      [] OTHER -> v.n # 0

\* sqlite3 parameter binding: a Python bool is bound as the integer 0 or 1;
\* None, int, float and str keep their storage class.
Bind(v) == IF v.k = "bool" THEN Integer(v.n) ELSE v

\* Column type affinity applied when a bound value is stored.
\* INTEGER and BOOLEAN (NUMERIC) columns turn a real with no fraction into an
\* integer; REAL columns turn an integer into a real; TEXT and NULL are kept.
Affinity(decl, v) ==
    CASE decl \in {"INTEGER", "BOOLEAN"} /\ v.k = "real" /\ v.n % 10 = 0 -> Integer(v.n \div 10)
      [] decl = "REAL" /\ v.k = "int" -> Float(v.n * 10)
      [] OTHER -> v

(* ------------------------------ schema -------------------------------- *)

PlayerFields == {"name", "role", "batting_style", "bowling_style"}
MatchFields == {"did_bat", "runs", "balls", "wickets", "overs", "conceded",
                "catches", "stumpings", "run_outs"}

\* Declared type of every matches column a request can set.
MatchDecl ==
    [f \in MatchFields |->
        CASE f = "did_bat" -> "BOOLEAN"
          [] f = "overs" -> "REAL"
          [] OTHER -> "INTEGER"]

\* Defaults add_match_for_player passes to data.get for an absent key.
MatchDefault ==
    [f \in MatchFields |->
        CASE f = "did_bat" -> Boolean(FALSE)
          [] f = "overs" -> Float(0)
          [] OTHER -> Integer(0)]

\* Columns of players declared NOT NULL.
PlayerNotNull == {"name"}

\* PRAGMA foreign_keys of a connection returned by get_db_connection: the
\* handler never issues the pragma, so SQLite's per-connection default (off)
\* applies and the REFERENCES ... ON DELETE CASCADE clause is not enforced.
foreign_keys == FALSE


(* ------------------------------ tables -------------------------------- *)

\* A players row is [id, cols], cols giving name, role, batting_style and
\* bowling_style; a matches row is [id, player_id, cols].  A table is the
\* set of its rows.
Ids(tbl) == {r.id : r \in tbl}
Row(tbl, id) == CHOOSE r \in tbl : r.id = id

\* Largest rowid in a table, 0 when it is empty.
MaxRowid(tbl) == IF tbl = {} THEN 0 ELSE CHOOSE i \in Ids(tbl) : \A j \in Ids(tbl) : j <= i

\* Rowid chosen without AUTOINCREMENT: one more than the largest rowid now in
\* the table, so the id of a deleted last row is handed out again.
NextRowidNoAutoincrement(tbl, seq) == MaxRowid(tbl) + 1

\* INTEGER PRIMARY KEY AUTOINCREMENT: one more than the largest rowid the
\* table has ever held, which sqlite_sequence (seq) remembers.
NextRowid(tbl, seq) == (IF seq > MaxRowid(tbl) THEN seq ELSE MaxRowid(tbl)) + 1

\* NOT NULL checked on the parameters even when the WHERE clause matches no row.
NotNullCheckedWithoutRow(hit, params) == \E c \in PlayerNotNull : params[c] = None

\* The name column declared without NOT NULL.
NotNullDropped(hit, params) == FALSE

\* NOT NULL constraint of players, checked for every row the statement writes
\* (hit): a statement that writes no row cannot violate it.
NotNullViolated(hit, params) == hit # {} /\ \E c \in PlayerNotNull : params[c] = None

\* Parameters of the players INSERT and UPDATE: data.get(column) per column.
PlayerParams(data) == [f \in PlayerFields |-> Bind(Get(data, f, None))]

\* Parameters of the matches INSERT: data.get(column, default) per column.
InsertMatchParams(data) ==
    [f \in MatchFields |-> Affinity(MatchDecl[f], Bind(Get(data, f, MatchDefault[f])))]

\* UPDATE parameters that fall back to the creation defaults for absent keys.
UpdateMatchParamsDefaulted(data) == InsertMatchParams(data)

\* Parameters of the matches UPDATE: data.get(column) per column, no default.
UpdateMatchParams(data) ==
    [f \in MatchFields |-> Affinity(MatchDecl[f], Bind(Get(data, f, None)))]

\* INSERT INTO players (...) VALUES (?, ?, ?, ?)
InsertPlayer(tbl, seq, params) ==
    LET id == NextRowid(tbl, seq)
        err == NotNullViolated({id}, params)
    IN  [err |-> err,
         lastrowid |-> IF err THEN 0 ELSE id,
         tbl |-> IF err THEN tbl ELSE tbl \cup {[id |-> id, cols |-> params]},
         seq |-> IF err THEN seq ELSE id]

\* UPDATE players SET name=?, role=?, batting_style=?, bowling_style=? WHERE id=?
UpdatePlayer(tbl, id, params) ==
    LET hit == {r \in tbl : r.id = id}
        err == NotNullViolated(hit, params)
    IN  [err |-> err,
         rowcount |-> IF err THEN 0 ELSE Cardinality(hit),
         tbl |-> IF err THEN tbl
                 ELSE (tbl \ hit) \cup {[r EXCEPT !.cols = params] : r \in hit}]

\* DELETE FROM players WHERE id = ?  The ON DELETE CASCADE action on matches
\* runs only on a connection with foreign_keys on.
DeletePlayer(tbl, mtbl, id) ==
    LET hit == {r \in tbl : r.id = id}
    IN  [rowcount |-> Cardinality(hit),
         tbl |-> tbl \ hit,
         mtbl |-> IF foreign_keys /\ hit # {}
                  THEN {m \in mtbl : m.player_id # id} ELSE mtbl]

\* SELECT id FROM players WHERE id = ? ... fetchone() without looking.
PlayerExistsUnchecked(tbl, id) == TRUE

\* SELECT id FROM players WHERE id = ? ... fetchone() is not None
PlayerExists(tbl, id) == id \in Ids(tbl)

\* INSERT INTO matches (player_id, did_bat, ...) VALUES (?, ?, ...)
\* The foreign key on player_id is checked only with foreign_keys on.
InsertMatch(mtbl, tbl, seq, player_id, params) ==
    LET id == NextRowid(mtbl, seq)
        err == foreign_keys /\ player_id \notin Ids(tbl)
    IN  [err |-> err,
         lastrowid |-> IF err THEN 0 ELSE id,
         mtbl |-> IF err THEN mtbl
                  ELSE mtbl \cup {[id |-> id, player_id |-> player_id, cols |-> params]},
         seq |-> IF err THEN seq ELSE id]

\* UPDATE matches SET did_bat=?, runs=?, ... WHERE id=?
UpdateMatch(mtbl, id, params) ==
    LET hit == {m \in mtbl : m.id = id}
    IN  [rowcount |-> Cardinality(hit),
         mtbl |-> (mtbl \ hit) \cup {[m EXCEPT !.cols = params] : m \in hit}]

\* DELETE FROM matches WHERE id = ?
DeleteMatch(mtbl, id) ==
    LET hit == {m \in mtbl : m.id = id}
    IN  [rowcount |-> Cardinality(hit), mtbl |-> mtbl \ hit]

(* ----------------------------- requests ------------------------------- *)

PlayerBody(name, role, batting_style, bowling_style) ==
    [f \in PlayerFields |->
        CASE f = "name" -> name
          [] f = "role" -> role
          [] f = "batting_style" -> batting_style
          [] f = "bowling_style" -> bowling_style]

\* JSON bodies sent to POST /players and PUT /players/<id>.
PlayerBodies ==
    { PlayerBody(Str("Rahul"), Str("Keeper"), Absent, None),
      PlayerBody(Str(""), Absent, Absent, Absent),
      PlayerBody(None, Str("Bowler"), Absent, Absent),
      PlayerBody(Absent, Absent, Absent, Absent) }

NoMatchBody == [f \in MatchFields |-> Absent]

\* JSON bodies sent to POST /players/<id>/matches and PUT /matches/<id>.
MatchBodies ==
    { NoMatchBody,
      [NoMatchBody EXCEPT !["did_bat"] = Boolean(TRUE), !["runs"] = Integer(50),
                          !["balls"] = None, !["overs"] = Integer(4)] }

NoPlayerBody == PlayerBody(Absent, Absent, Absent, Absent)

\* The <int:player_id> and <int:match_id> path arguments tried.
PlayerIdArgs == 1..MaxPlayers
MatchIdArgs == 1..MaxMatches

Request(op, id, player, match) == [op |-> op, id |-> id, player |-> player, match |-> match]

\* jsonify(...), status: body names the payload, ids the rows it carries and
\* embedded the (player id, match id) pairs of their "matches" lists.
Response(status, body, ids, embedded) ==
    [status |-> status, body |-> body, ids |-> ids, embedded |-> embedded]

(* ------------------------------- state -------------------------------- *)

VARIABLES
    players,          \* rows of table players
    matches,          \* rows of table matches
    player_seq,       \* sqlite_sequence.seq for players
    match_seq,        \* sqlite_sequence.seq for matches
    request,          \* the request served last
    response,         \* the response returned last
    unclosed,         \* connections the last handler opened and had not closed on return
    assigned_players, \* every id a player INSERT has been given
    assigned_matches, \* every id a match INSERT has been given
    pc,               \* SpecConc: position of each request thread
    local             \* SpecConc: request and lastrowid held by each thread

store == <<players, matches, player_seq, match_seq>>
ghost == <<assigned_players, assigned_matches>>
threads == <<pc, local>>
vars == <<players, matches, player_seq, match_seq, request, response, unclosed,
          assigned_players, assigned_matches, pc, local>>

Threads == {1, 2}

\* init_db on an absent database file: both tables exist and are empty.
Init ==
    /\ players = {}
    /\ matches = {}
    /\ player_seq = 0
    /\ match_seq = 0
    /\ request = Request("init_db", 0, NoPlayerBody, NoMatchBody)
    /\ response = Response(0, "", {}, {})
    /\ unclosed = 0
    /\ assigned_players = {}
    /\ assigned_matches = {}
    /\ pc = [t \in Threads |-> "idle"]
    /\ local = [t \in Threads |-> [request |-> Request("init_db", 0, NoPlayerBody, NoMatchBody),
                                   lastrowid |-> 0]]

\* (player id, match id) pairs of the matches embedded under the given players.
Embedded(pids) == {<<m.player_id, m.id>> : m \in {x \in matches : x.player_id \in pids}}

(* ---------------------- handlers, one request at a time --------------- *)

\* POST /players
add_player ==
    \E data \in PlayerBodies :
        LET name == Get(data, "name", None)
            ins == InsertPlayer(players, player_seq, PlayerParams(data))
        IN  /\ request' = Request("add_player", 0, data, NoMatchBody)
            /\ UNCHANGED <<matches, match_seq, assigned_matches, threads>>
            /\ IF ~Truthy(name)
               THEN /\ response' = Response(400, "Player name is required", {}, {})
                    /\ unclosed' = 0
                    /\ UNCHANGED <<players, player_seq, assigned_players>>
               ELSE /\ NextRowid(players, player_seq) <= MaxPlayers
                    /\ IF ins.err
                       THEN /\ response' = Response(500, "error", {}, {})
                            /\ unclosed' = 0
                            /\ UNCHANGED <<players, player_seq, assigned_players>>
                       ELSE /\ players' = ins.tbl
                            /\ player_seq' = ins.seq
                            /\ assigned_players' = assigned_players \cup {ins.lastrowid}
                            /\ response' = Response(201, "player", {ins.lastrowid}, {})
                            \* The connection opened for the re-read is never closed
                            \* by the handler; whether it is still open on return
                            \* depends on when the interpreter finalises it.
                            /\ unclosed' \in {0, 1}

\* GET /players
get_players ==
    /\ request' = Request("get_players", 0, NoPlayerBody, NoMatchBody)
    /\ response' = Response(200, "players", Ids(players), Embedded(Ids(players)))
    /\ unclosed' = 0
    /\ UNCHANGED <<store, ghost, threads>>

\* GET /players/<player_id>
get_player ==
    \E player_id \in PlayerIdArgs :
        /\ request' = Request("get_player", player_id, NoPlayerBody, NoMatchBody)
        /\ response' = IF player_id \notin Ids(players)
                       THEN Response(404, "Player not found", {}, {})
                       ELSE Response(200, "player", {player_id}, Embedded({player_id}))
        /\ unclosed' = 0
        /\ UNCHANGED <<store, ghost, threads>>

\* PUT /players/<player_id>
update_player ==
    \E player_id \in PlayerIdArgs, data \in PlayerBodies :
        LET upd == UpdatePlayer(players, player_id, PlayerParams(data))
        IN  /\ request' = Request("update_player", player_id, data, NoMatchBody)
            /\ unclosed' = 0
            /\ UNCHANGED <<matches, player_seq, match_seq, ghost, threads>>
            /\ IF upd.err
               THEN /\ response' = Response(500, "error", {}, {})
                    /\ UNCHANGED players
               ELSE /\ players' = upd.tbl
                    /\ response' = IF upd.rowcount = 0
                                   THEN Response(404, "Player not found", {}, {})
                                   ELSE Response(200, "player", {player_id}, {})

\* DELETE /players/<player_id>
delete_player ==
    \E player_id \in PlayerIdArgs :
        LET del == DeletePlayer(players, matches, player_id)
        IN  /\ request' = Request("delete_player", player_id, NoPlayerBody, NoMatchBody)
            /\ players' = del.tbl
            /\ matches' = del.mtbl
            /\ response' = IF del.rowcount = 0
                           THEN Response(404, "Player not found", {}, {})
                           ELSE Response(204, "Player deleted successfully", {}, {})
            /\ unclosed' = 0
            /\ UNCHANGED <<player_seq, match_seq, ghost, threads>>

\* POST /players/<player_id>/matches
add_match_for_player ==
    \E player_id \in PlayerIdArgs, data \in MatchBodies :
        LET ins == InsertMatch(matches, players, match_seq, player_id, InsertMatchParams(data))
        IN  /\ request' = Request("add_match_for_player", player_id, NoPlayerBody, data)
            /\ UNCHANGED <<players, player_seq, assigned_players, threads>>
            /\ IF ~PlayerExists(players, player_id)
               THEN /\ response' = Response(404, "Player not found", {}, {})
                    /\ unclosed' = 0
                    /\ UNCHANGED <<matches, match_seq, assigned_matches>>
               ELSE /\ NextRowid(matches, match_seq) <= MaxMatches
                    /\ IF ins.err
                       THEN /\ response' = Response(500, "error", {}, {})
                            /\ unclosed' = 0
                            /\ UNCHANGED <<matches, match_seq, assigned_matches>>
                       ELSE /\ matches' = ins.mtbl
                            /\ match_seq' = ins.seq
                            /\ assigned_matches' = assigned_matches \cup {ins.lastrowid}
                            /\ response' = Response(201, "match", {ins.lastrowid}, {})
                            \* As in add_player: the re-read's connection is left
                            \* to the interpreter.
                            /\ unclosed' \in {0, 1}

\* PUT /matches/<match_id>
update_match ==
    \E match_id \in MatchIdArgs, data \in MatchBodies :
        LET upd == UpdateMatch(matches, match_id, UpdateMatchParams(data))
        IN  /\ request' = Request("update_match", match_id, NoPlayerBody, data)
            /\ matches' = upd.mtbl
            /\ response' = IF upd.rowcount = 0
                           THEN Response(404, "Match not found", {}, {})
                           ELSE Response(200, "match", {match_id}, {})
            /\ unclosed' = 0
            /\ UNCHANGED <<players, player_seq, match_seq, ghost, threads>>

\* DELETE /matches/<match_id>
delete_match ==
    \E match_id \in MatchIdArgs :
        LET del == DeleteMatch(matches, match_id)
        IN  /\ request' = Request("delete_match", match_id, NoPlayerBody, NoMatchBody)
            /\ matches' = del.mtbl
            /\ response' = IF del.rowcount = 0
                           THEN Response(404, "Match not found", {}, {})
                           ELSE Response(204, "Match deleted successfully", {}, {})
            /\ unclosed' = 0
            /\ UNCHANGED <<players, player_seq, match_seq, ghost, threads>>

Next ==
    \/ add_player
    \/ get_players
    \/ get_player
    \/ update_player
    \/ delete_player
    \/ add_match_for_player
    \/ update_match
    \/ delete_match

Spec == Init /\ [][Next]_vars

(* ------------------ handlers interleaved at statements ---------------- *)

\* Every thread has its own connection; SQLite serialises the statements, and
\* an INSERT or DELETE together with the commit that follows it is one step.

Held(t, req, lastrowid) == [local EXCEPT ![t] = [request |-> req, lastrowid |-> lastrowid]]

\* add_player up to conn.commit(): the name check and the INSERT.
start_add_player(t) ==
    \E data \in PlayerBodies :
        LET name == Get(data, "name", None)
            req == Request("add_player", 0, data, NoMatchBody)
            ins == InsertPlayer(players, player_seq, PlayerParams(data))
        IN  /\ pc[t] = "idle"
            /\ UNCHANGED <<matches, match_seq, assigned_matches>>
            /\ IF ~Truthy(name)
               THEN /\ request' = req
                    /\ response' = Response(400, "Player name is required", {}, {})
                    /\ unclosed' = 0
                    /\ UNCHANGED <<players, player_seq, assigned_players, threads>>
               ELSE /\ NextRowid(players, player_seq) <= MaxPlayers
                    /\ ~ins.err
                    /\ players' = ins.tbl
                    /\ player_seq' = ins.seq
                    /\ assigned_players' = assigned_players \cup {ins.lastrowid}
                    /\ pc' = [pc EXCEPT ![t] = "reread_player"]
                    /\ local' = Held(t, req, ins.lastrowid)
                    /\ UNCHANGED <<request, response, unclosed>>

\* add_player from cursor.lastrowid on: the row is read back on a second
\* connection; dict(None) raises when the row has been deleted meanwhile.
finish_add_player(t) ==
    /\ pc[t] = "reread_player"
    /\ pc' = [pc EXCEPT ![t] = "idle"]
    /\ request' = local[t].request
    /\ response' = IF local[t].lastrowid \in Ids(players)
                   THEN Response(201, "player", {local[t].lastrowid}, {})
                   ELSE Response(500, "error", {}, {})
    /\ unclosed' \in {0, 1}
    /\ UNCHANGED <<store, ghost, local>>

\* add_match_for_player up to the existence check.
start_add_match(t) ==
    \E player_id \in PlayerIdArgs, data \in MatchBodies :
        LET req == Request("add_match_for_player", player_id, NoPlayerBody, data)
        IN  /\ pc[t] = "idle"
            /\ UNCHANGED <<store, ghost>>
            /\ IF ~PlayerExists(players, player_id)
               THEN /\ request' = req
                    /\ response' = Response(404, "Player not found", {}, {})
                    /\ unclosed' = 0
                    /\ UNCHANGED threads
               ELSE /\ NextRowid(matches, match_seq)
                         + Cardinality({u \in Threads : pc[u] = "insert_match"}) <= MaxMatches
                    /\ pc' = [pc EXCEPT ![t] = "insert_match"]
                    /\ local' = Held(t, req, 0)
                    /\ UNCHANGED <<request, response, unclosed>>

\* add_match_for_player: the INSERT and conn.commit().
insert_match(t) ==
    LET req == local[t].request
        ins == InsertMatch(matches, players, match_seq, req.id, InsertMatchParams(req.match))
    IN  /\ pc[t] = "insert_match"
        /\ UNCHANGED <<players, player_seq, assigned_players>>
        /\ IF ins.err
           THEN /\ pc' = [pc EXCEPT ![t] = "idle"]
                /\ request' = req
                /\ response' = Response(500, "error", {}, {})
                /\ unclosed' = 0
                /\ UNCHANGED <<matches, match_seq, assigned_matches, local>>
           ELSE /\ matches' = ins.mtbl
                /\ match_seq' = ins.seq
                /\ assigned_matches' = assigned_matches \cup {ins.lastrowid}
                /\ pc' = [pc EXCEPT ![t] = "reread_match"]
                /\ local' = Held(t, req, ins.lastrowid)
                /\ UNCHANGED <<request, response, unclosed>>

\* add_match_for_player from cursor.lastrowid on.
finish_add_match(t) ==
    /\ pc[t] = "reread_match"
    /\ pc' = [pc EXCEPT ![t] = "idle"]
    /\ request' = local[t].request
    /\ response' = IF local[t].lastrowid \in Ids(matches)
                   THEN Response(201, "match", {local[t].lastrowid}, {})
                   ELSE Response(500, "error", {}, {})
    /\ unclosed' \in {0, 1}
    /\ UNCHANGED <<store, ghost, local>>

\* delete_player and delete_match run one statement and its commit: a thread
\* serving one of them takes a single step.
NextConc ==
    \/ delete_player
    \/ delete_match
    \/ \E t \in Threads : start_add_player(t)
    \/ \E t \in Threads : finish_add_player(t)
    \/ \E t \in Threads : start_add_match(t)
    \/ \E t \in Threads : insert_match(t)
    \/ \E t \in Threads : finish_add_match(t)

SpecConc == Init /\ [][NextConc]_vars

(* ------------------------------ claims -------------------------------- *)

\* The number a stored or submitted value denotes, in tenths (false 0, true 10).
Tenths(v) == IF v.k = "real" THEN v.n ELSE v.n * 10

\* A stored value equals a submitted one: both null, or the same number.
SameValue(stored, sent) ==
    IF sent = None \/ stored = None THEN stored = sent
    ELSE Tenths(stored) = Tenths(sent)

\* C1: a match never outlives its player: every row of matches has a
\* player_id that is the id of a row now in players.
NoOrphanMatches == \A m \in matches : m.player_id \in Ids(players)

UpdateMissingIs404 ==
    [][ /\ (request'.op = "update_player" /\ request'.id \notin Ids(players))
            => (response'.status = 404 /\ players' = players /\ matches' = matches)
        /\ (request'.op = "update_match" /\ request'.id \notin Ids(matches))
            => (response'.status = 404 /\ players' = players /\ matches' = matches) ]_vars

\* C3 witness: a PUT without a name on a missing player id was answered 404.
UpdateMissingWithoutName ==
    /\ request.op = "update_player"
    /\ request.player["name"] \in {Absent, None}
    /\ request.id \notin Ids(players)
    /\ response.status = 404

\* C4: create-match under a player id that is not in players answers 404 and
\* inserts no row (and takes no id).
CreateMatchMissingPlayerIs404 ==
    [][ (request'.op = "add_match_for_player" /\ request'.id \notin Ids(players))
            => (response'.status = 404 /\ matches' = matches /\ match_seq' = match_seq) ]_vars

\* C4 witness: create-match was refused for the id of a deleted player.
CreateMatchRefused ==
    /\ request.op = "add_match_for_player"
    /\ response.status = 404
    /\ request.id \in assigned_players \ Ids(players)

\* C5: every stored player has a name that is neither null nor empty.
EveryPlayerHasName == \A p \in players : p.cols["name"] \notin {None, Str("")}

\* C6: create-player with an empty or absent name answers 400, inserts no
\* row and takes no id.
NamelessCreateIs400 ==
    [][ (request'.op = "add_player" /\ request'.player["name"] \in {Absent, None, Str("")})
            => (response'.status = 400 /\ players' = players /\ player_seq' = player_seq) ]_vars

\* C6 witness: a create-player with the empty name was answered 400.
EmptyNameRefused ==
    /\ request.op = "add_player"
    /\ request.player["name"] = Str("")
    /\ response.status = 400

\* C7: when a handler returns, it has closed every connection it opened.
ConnectionsReleased == unclosed = 0

\* C8: no match row is inserted under a player id whose row is not in
\* players at the time of the INSERT.
InsertOnlyUnderExistingPlayer ==
    [][ \A m \in matches' : m.id \notin Ids(matches) => m.player_id \in Ids(players) ]_vars

\* C9: a request answered 500 leaves players and matches (and the id
\* counters) as they were; updating an existing player with an absent or
\* null name is such a request.
StorageFailureChangesNothing ==
    [][ /\ response'.status = 500 => store' = store
        /\ (/\ request'.op = "update_player"
            /\ request'.id \in Ids(players)
            /\ request'.player["name"] \in {Absent, None})
            => response'.status = 500 ]_vars

\* C9 witness: an update of an existing player without a name was answered 500.
NullNameUpdateFailed ==
    /\ request.op = "update_player"
    /\ request.id \in Ids(players)
    /\ request.player["name"] \in {Absent, None}
    /\ response.status = 500

\* C10: a successful update-match leaves id and player_id alone and sets every
\* other column to the body's value, or to null where the body has no such
\* key; a successful create-match stores false/0/0.0 for every absent key.
UpdateReplacesCreateDefaults ==
    [][ /\ (request'.op = "update_match" /\ response'.status = 200)
            => /\ Ids(matches') = Ids(matches)
               /\ Row(matches', request'.id).player_id = Row(matches, request'.id).player_id
               /\ \A f \in MatchFields :
                     LET stored == Row(matches', request'.id).cols[f]
                         sent == request'.match[f]
                     IN  IF sent = Absent THEN stored = None ELSE SameValue(stored, sent)
        /\ (request'.op = "add_match_for_player" /\ response'.status = 201)
            => \A id \in response'.ids, f \in MatchFields :
                     LET stored == Row(matches', id).cols[f]
                         sent == request'.match[f]
                     IN  IF sent = Absent THEN stored # None /\ Tenths(stored) = 0
                         ELSE SameValue(stored, sent) ]_vars

\* C10 witness: a partial body updated a match that had been created with
\* defaults or values in the columns the body leaves out.
PartialUpdateDone ==
    /\ request.op = "update_match"
    /\ response.status = 200
    /\ request.match["runs"] # Absent
    /\ request.match["wickets"] = Absent
    /\ Row(matches, request.id).cols["wickets"] = None

=============================================================================
